---- MODULE Spec2Model ----
(***************************************************************************)
(* Money Pocket: the ledger store (src/db.py) and the request handlers     *)
(* (src/app.py) as a state machine.                                        *)
(*                                                                         *)
(* The store is the SQLite database: the users, transactions and           *)
(* categories tables.  transactions has an INTEGER PRIMARY KEY             *)
(* AUTOINCREMENT, so it is a set of rows with distinct ids and a sequence  *)
(* counter.  categories has no key and no uniqueness constraint at all     *)
(* (db.py 107-112), so it is a bag of rows.                                *)
(*                                                                         *)
(* Text: a category id, a label and a memo are TLA+ strings; None is NULL. *)
(* A timestamp is the tuple <<year, month, day, hour, minute, second>> of  *)
(* the fields of its ISO-8601 text 'YYYY-MM-DDTHH:MM:SS'; the text has a   *)
(* fixed width with zero-padded fields, so SQLite's comparison of two such *)
(* texts is the lexicographic comparison of the tuples (iso_less).         *)
(* The amount field of a form is a sequence of characters, parsed by int.  *)
(***************************************************************************)
EXTENDS Integers, Sequences, FiniteSets, Bags, TLC

VARIABLES
    schema,     \* TRUE once init_db has created the tables
    users,      \* the users table: a set of [id, username]
    txs,        \* the transactions table: a set of rows
    seq_tx,     \* sqlite_sequence of transactions: the largest id ever given
    cats,       \* the categories table: a bag of [id, user_id, label, display_order]
    last,       \* the last call or request: [op, user, res]; res is its outcome:
                \* the error of a refused form or row, "no_row" when the
                \* statement matched no row, "ok" otherwise
    inflight    \* the POST /transaction requests served concurrently: for each,
                \* its position in the handler and the locals it holds

vars == <<schema, users, txs, seq_tx, cats, last, inflight>>

----------------------------------------------------------------------------
(* Bounds of the model *)

MaxTx == 2          \* transactions ever inserted
MaxOwned == 2       \* owned category rows in the table
MaxOrder == 6       \* largest display_order given to a category
MaxAmount == 2      \* largest amount submitted
MaxRequests == 3    \* POST /transaction requests served concurrently

\* None in a text column, and in the user_id column (the ids SQLite gives start at 1)
NULL == "<NULL>"
NO_USER == 0

UserIds == {1, 2}
Usernames == {"akiko", "ben"}
Movements == {"increase", "decrease", "transfer"}

----------------------------------------------------------------------------
(* Generic helpers *)

RECURSIVE SumSet(_)
\* the sum of a finite set of [key, n] pairs' n
SumSet(S) ==
    IF S = {} THEN 0
    ELSE LET x == CHOOSE y \in S : TRUE IN x.n + SumSet(S \ {x})

Max(S) == CHOOSE x \in S : \A y \in S : y <= x

\* the bag B restricted to the rows that satisfy keep
BagFilter(B, keep(_)) == [r \in {x \in DOMAIN B : keep(x)} |-> B[r]]

\* the bag of the images f(r) of the rows of B (UPDATE ... SET)
BagMap(B, f(_)) ==
    [r2 \in {f(r) : r \in DOMAIN B} |->
        SumSet({[key |-> r, n |-> B[r]] : r \in {x \in DOMAIN B : f(x) = r2}})]

BagAdd(B, r) == B (+) SetToBag({r})

----------------------------------------------------------------------------
(* db.py: constants *)

DEFAULT_CATEGORIES ==
    << <<"food", "tabemono">>, <<"fun", "asobi">>, <<"stationery", "bungu">>,
       <<"oshikatsu", "oshikatsu">>, <<"other", "sonota">> >>

Movement_CHECK(movement) == movement \in {"increase", "decrease"}

Amount_CHECK(amount) == amount > 0

----------------------------------------------------------------------------
(* db.py: the store's functions, as functions of the tables *)

\* init_db, the categories part: the defaults are inserted only when no
\* shared row exists
init_db_categories_nocheck(C) ==
    C (+) SetToBag({[id |-> DEFAULT_CATEGORIES[i][1], user_id |-> NO_USER,
                     label |-> DEFAULT_CATEGORIES[i][2], display_order |-> i - 1]
                    : i \in 1..Len(DEFAULT_CATEGORIES)})

init_db_categories(C) ==
    LET existing == BagCardinality(BagFilter(C, LAMBDA r : r.user_id = NO_USER))
    IN  IF existing = 0
        THEN C (+) SetToBag({[id |-> DEFAULT_CATEGORIES[i][1], user_id |-> NO_USER,
                              label |-> DEFAULT_CATEGORIES[i][2], display_order |-> i - 1]
                             : i \in 1..Len(DEFAULT_CATEGORIES)})
        ELSE C

\* create_user: None (the table unchanged) when the username exists
create_user(U, username) ==
    IF \E r \in U : r.username = username
    THEN U
    ELSE U \cup {[id |-> Cardinality(U) + 1, username |-> username]}

get_user_by_id(U, user_id) == {r \in U : r.id = user_id}

\* insert_transaction: [T, seq]; a row the CHECK constraints refuse raises
\* IntegrityError and the insert is rolled back
insert_transaction(T, seq, user_id, now, movement, amount, category, memo) ==
    IF Movement_CHECK(movement) /\ Amount_CHECK(amount)
    THEN [T |-> T \cup {[id |-> seq + 1, user_id |-> user_id, occurred_at |-> now,
                         movement |-> movement, amount |-> amount,
                         category |-> category, memo |-> memo]},
          seq |-> seq + 1]
    ELSE [T |-> T, seq |-> seq]

\* SUM(CASE WHEN movement = 'increase' THEN amount ELSE -amount END)
signed_amount(r) == IF r.movement = "increase" THEN r.amount ELSE 0 - r.amount

fetch_balance_all_users(T, user_id) ==
    SumSet({[key |-> r.id, n |-> signed_amount(r)] : r \in T})

fetch_balance(T, user_id) ==
    SumSet({[key |-> r.id, n |-> signed_amount(r)] : r \in {x \in T : x.user_id = user_id}})

\* the Transaction dataclass of a row
Transaction(row) ==
    [id |-> row.id, occurred_at |-> row.occurred_at, movement |-> row.movement,
     amount |-> row.amount, category |-> row.category, memo |-> row.memo]

\* fetch_transaction_by_id: the set holding the Transaction, empty for None
fetch_transaction_by_id(T, user_id, transaction_id) ==
    {Transaction(r) : r \in {x \in T : x.id = transaction_id /\ x.user_id = user_id}}

update_transaction_any_user(T, user_id, transaction_id, movement, amount, category, memo) ==
    LET hit == {r \in T : r.id = transaction_id}
    IN  IF hit # {} /\ ~(Movement_CHECK(movement) /\ Amount_CHECK(amount))
        THEN T
        ELSE (T \ hit) \cup
             {[r EXCEPT !.movement = movement, !.amount = amount,
                        !.category = category, !.memo = memo] : r \in hit}

\* update_transaction: a matched row the CHECK constraints refuse raises and
\* is rolled back; no matched row is no error
update_transaction(T, user_id, transaction_id, movement, amount, category, memo) ==
    LET hit == {r \in T : r.id = transaction_id /\ r.user_id = user_id}
    IN  IF hit # {} /\ ~(Movement_CHECK(movement) /\ Amount_CHECK(amount))
        THEN T
        ELSE (T \ hit) \cup
             {[r EXCEPT !.movement = movement, !.amount = amount,
                        !.category = category, !.memo = memo] : r \in hit}

delete_transaction(T, user_id, transaction_id) ==
    {r \in T : ~(r.id = transaction_id /\ r.user_id = user_id)}

----------------------------------------------------------------------------
(* db.py: months *)

\* the comparison SQLite makes of two 'YYYY-MM-DDTHH:MM:SS' texts
RECURSIVE iso_less(_, _)
iso_less(a, b) ==
    IF a = <<>> \/ b = <<>> THEN FALSE
    ELSE IF Head(a) # Head(b) THEN Head(a) < Head(b)
    ELSE iso_less(Tail(a), Tail(b))

\* start = datetime.fromisoformat(f"{month}-01")
month_start(month) == <<month[1], month[2], 1, 0, 0, 0>>

month_end_same_year(month) ==
    IF month[2] = 12
    THEN <<month[1], 1, 1, 0, 0, 0>>
    ELSE <<month[1], month[2] + 1, 1, 0, 0, 0>>

\* end: the first of the next month, of January of the next year after December
month_end(month) ==
    IF month[2] = 12
    THEN <<month[1] + 1, 1, 1, 0, 0, 0>>
    ELSE <<month[1], month[2] + 1, 1, 0, 0, 0>>

\* WHERE user_id = ? AND occurred_at >= ? AND occurred_at < ?
rows_of_month(T, user_id, month) ==
    {r \in T : /\ r.user_id = user_id
               /\ ~iso_less(r.occurred_at, month_start(month))
               /\ iso_less(r.occurred_at, month_end(month))}

\* fetch_transactions_by_month: the lists the query may return.  ORDER BY
\* occurred_at ASC leaves the order of rows of one occurred_at to the engine.
fetch_transactions_by_month(T, user_id, month) ==
    LET rows == rows_of_month(T, user_id, month)
        n == Cardinality(rows)
    IN  {[i \in 1..n |-> Transaction(s[i])] :
            s \in {q \in [1..n -> rows] :
                     /\ \A i, j \in 1..n : i # j => q[i] # q[j]
                     /\ \A i \in 1..n, j \in 1..n :
                            i < j => ~iso_less(q[j].occurred_at, q[i].occurred_at)}}

----------------------------------------------------------------------------
(* db.py: categories *)

\* the collation of the category ids of the model (ORDER BY ..., id)
CategoryIdOrder == <<"bogus", "food", "fun", "oshikatsu", "other", "stationery", "travel">>

IdRank(id) == CHOOSE i \in 1..Len(CategoryIdOrder) : CategoryIdOrder[i] = id

LabelOrder == <<"asobi", "bungu", "new-label", "oshikatsu", "sonota", "tabemono", "travel-label">>

LabelRank(label) == CHOOSE i \in 1..Len(LabelOrder) : LabelOrder[i] = label

\* ORDER BY display_order, id; rows equal in both (none in a store the code
\* has written) are listed shared first, then by label
CatBefore(r, q) ==
    \/ r.display_order < q.display_order
    \/ /\ r.display_order = q.display_order
       /\ \/ IdRank(r.id) < IdRank(q.id)
          \/ /\ r.id = q.id
             /\ \/ r.user_id < q.user_id
                \/ r.user_id = q.user_id /\ LabelRank(r.label) <= LabelRank(q.label)

RECURSIVE SortCats(_)
SortCats(B) ==
    IF DOMAIN B = {} THEN <<>>
    ELSE LET m == CHOOSE r \in DOMAIN B : \A q \in DOMAIN B : CatBefore(r, q)
         IN  <<m>> \o SortCats(B (-) SetToBag({m}))

\* WHERE user_id IS NULL OR user_id = ?
visible(C, user_id) == BagFilter(C, LAMBDA r : r.user_id = NO_USER \/ r.user_id = user_id)

get_all_categories(C, user_id) == SortCats(visible(C, user_id))

\* [cat['id'] for cat in get_all_categories(user_id)]
category_ids(C, user_id) == {r.id : r \in DOMAIN visible(C, user_id)}

\* add_category: display_order = COALESCE(MAX(display_order), -1) + 1 over
\* the shared rows and the user's
add_category(C, user_id, category_id, label) ==
    LET seen == DOMAIN visible(C, user_id)
        max_order == IF seen = {} THEN 0 - 1 ELSE Max({r.display_order : r \in seen})
    IN  BagAdd(C, [id |-> category_id, user_id |-> user_id, label |-> label,
                   display_order |-> max_order + 1])

update_category_any_owner(C, user_id, category_id, new_label) ==
    BagMap(C, LAMBDA r : IF r.id = category_id
                         THEN [r EXCEPT !.label = new_label] ELSE r)

\* UPDATE categories SET label = ? WHERE id = ? AND user_id = ?
update_category(C, user_id, category_id, new_label) ==
    BagMap(C, LAMBDA r : IF r.id = category_id /\ r.user_id = user_id
                         THEN [r EXCEPT !.label = new_label] ELSE r)

delete_category_txs_kept(T, user_id, category_id) == T

delete_category_txs_any_user(T, user_id, category_id) ==
    {IF r.category = category_id
     THEN [r EXCEPT !.category = "other"] ELSE r : r \in T}

\* delete_category, the transactions: UPDATE transactions SET category = 'other'
\* WHERE user_id = ? AND category = ?
delete_category_txs(T, user_id, category_id) ==
    {IF r.user_id = user_id /\ r.category = category_id
     THEN [r EXCEPT !.category = "other"] ELSE r : r \in T}

\* delete_category, the categories: DELETE FROM categories WHERE id = ? AND user_id = ?
delete_category_cats(C, user_id, category_id) ==
    BagFilter(C, LAMBDA r : ~(r.id = category_id /\ r.user_id = user_id))

reset_all_data_txs(T, user_id) == {r \in T : r.user_id # user_id}

reset_all_data_cats(C, user_id) == BagFilter(C, LAMBDA r : r.user_id # user_id)

\* fetch_category_totals: the mappings the function may return.  The rows of
\* GROUP BY category come in an order the engine chooses, and each row
\* assigns totals[row.category or 'other'], so of two rows with one key the
\* later one stays.
fetch_category_totals(T, C, user_id, month) ==
    LET ids == category_ids(C, user_id)
        dec == {r \in rows_of_month(T, user_id, month) : r.movement = "decrease"}
        groups == {[category |-> c,
                    total |-> SumSet({[key |-> r.id, n |-> r.amount] :
                                        r \in {x \in dec : x.category = c}})]
                   : c \in {r.category : r \in dec}}
        key(g) == IF g.category = NULL \/ g.category = "" THEN "other" ELSE g.category
        keys == {key(g) : g \in groups}
    IN  {[k \in ids \cup keys |-> IF k \in keys THEN pick[k].total ELSE 0] :
            pick \in {p \in [keys -> groups] : \A k \in keys : key(p[k]) = k}}

----------------------------------------------------------------------------
(* app.py: form text *)

RECURSIVE lstrip(_)
lstrip(s) == IF s # <<>> /\ Head(s) = " " THEN lstrip(Tail(s)) ELSE s

RECURSIVE rstrip(_)
rstrip(s) ==
    IF s # <<>> /\ s[Len(s)] = " " THEN rstrip(SubSeq(s, 1, Len(s) - 1)) ELSE s

\* str.strip of a sequence of characters
strip(s) == rstrip(lstrip(s))

Digits == <<"0", "1", "2", "3", "4", "5", "6", "7", "8", "9">>

is_digit(c) == \E i \in 1..Len(Digits) : Digits[i] = c

digit_value(c) == (CHOOSE i \in 1..Len(Digits) : Digits[i] = c) - 1

RECURSIVE digits_value(_, _)
digits_value(s, acc) ==
    IF s = <<>> THEN acc ELSE digits_value(Tail(s), acc * 10 + digit_value(Head(s)))

\* int(amount_raw): [ok, value]; ok is FALSE for ValueError.  An optional
\* sign, then decimal digits, blanks around them ignored.
int(s) ==
    LET t == strip(s)
        signed == t # <<>> /\ Head(t) \in {"-", "+"}
        body == IF signed THEN Tail(t) ELSE t
    IN  IF body # <<>> /\ \A i \in 1..Len(body) : is_digit(body[i])
        THEN [ok |-> TRUE,
              value |-> IF signed /\ Head(t) = "-"
                        THEN 0 - digits_value(body, 0) ELSE digits_value(body, 0)]
        ELSE [ok |-> FALSE, value |-> 0]

\* str(n) of a natural number below 10
str(n) == <<Digits[n + 1]>>

\* str.strip of a text of the model: the padded texts and what they strip to
strip_text(t) ==
    CASE t = " travel " -> "travel"
      [] t = " " -> ""
      [] OTHER -> t

\* request.form.get('memo', '').strip() or None
memo_of(memo_raw) == IF strip_text(memo_raw) = "" THEN NULL ELSE strip_text(memo_raw)

\* request.form.get('category') if movement == 'decrease' else None
category_of(movement, category_in) == IF movement = "decrease" THEN category_in ELSE NULL

validate_no_overdraft(amount_raw, movement, category, valid_categories, balance) ==
    LET amount == int(amount_raw)
    IN  IF ~amount.ok THEN "NotANumber"
        ELSE IF amount.value <= 0 THEN "NonPositiveAmount"
        ELSE IF movement \notin {"increase", "decrease"} THEN "InvalidMovement"
        ELSE IF movement = "decrease"
             THEN IF category = NULL \/ category = "" THEN "MissingCategory"
                  ELSE IF category \notin valid_categories THEN "UnknownCategory"
                  ELSE "ok"
        ELSE "ok"

\* the validation of a submitted form (transaction, lines 158-175; the same
\* statements in edit_transaction, lines 275-292): the error, or "ok"
validate(amount_raw, movement, category, valid_categories, balance) ==
    LET amount == int(amount_raw)
    IN  IF ~amount.ok THEN "NotANumber"
        ELSE IF amount.value <= 0 THEN "NonPositiveAmount"
        ELSE IF movement \notin {"increase", "decrease"} THEN "InvalidMovement"
        ELSE IF movement = "decrease"
             THEN IF category = NULL \/ category = "" THEN "MissingCategory"
                  ELSE IF category \notin valid_categories THEN "UnknownCategory"
                  ELSE IF amount.value > balance THEN "InsufficientBalance"
                  ELSE "ok"
        ELSE "ok"

balance_without_this_ignoring(balance, transaction) == balance

\* edit_transaction: the balance with the transaction under edit taken out
balance_without_this(balance, transaction) ==
    IF transaction.movement = "increase"
    THEN balance - transaction.amount
    ELSE balance + transaction.amount

----------------------------------------------------------------------------
(* The state machine *)

\* the POST /transaction requests the server may be serving at one time
Requests == 1..MaxRequests

\* a request that has not arrived
not_arrived == [pc |-> "idle", user |-> NO_USER, balance |-> 0,
                movement |-> NULL, amount |-> 0, res |-> NULL]

\* the database file does not exist yet
Init ==
    /\ schema = FALSE
    /\ users = {}
    /\ txs = {}
    /\ seq_tx = 0
    /\ cats = EmptyBag
    /\ last = [op |-> "start", user |-> NO_USER, res |-> "ok"]
    /\ inflight = [q \in Requests |-> not_arrived]

\* the users flask_login lets through login_required
logged_in(u) == get_user_by_id(users, u) # {}

owned_rows(C) == BagCardinality(BagFilter(C, LAMBDA r : r.user_id # NO_USER))

\* the user owns a row of the category
owns(C, user_id, category_id) ==
    \E r \in DOMAIN C : r.id = category_id /\ r.user_id = user_id

\* the bounds on the categories table let one more row in
room_for_category(C) ==
    /\ owned_rows(C) < MaxOwned
    /\ \A r \in DOMAIN C : r.display_order < MaxOrder

\* init_db(): CREATE TABLE IF NOT EXISTS, then the default categories
init_db ==
    /\ schema' = TRUE
    /\ cats' = init_db_categories(cats)
    /\ last' = [op |-> "init_db", user |-> NO_USER, res |-> "ok"]
    /\ UNCHANGED <<users, txs, seq_tx, inflight>>

\* register: create_user(username, password)
register(username) ==
    /\ schema
    /\ users' = create_user(users, username)
    /\ last' = [op |-> "register", user |-> NO_USER,
                res |-> IF users' = users THEN "duplicate" ELSE "ok"]
    /\ UNCHANGED <<schema, txs, seq_tx, cats, inflight>>

(* the store's functions called directly *)

Call_insert_transaction(user_id, now, movement, amount, category, memo) ==
    LET r == insert_transaction(txs, seq_tx, user_id, now, movement, amount, category, memo)
    IN  /\ schema
        /\ seq_tx < MaxTx
        /\ txs' = r.T
        /\ seq_tx' = r.seq
        /\ last' = [op |-> "insert_transaction", user |-> user_id,
                    res |-> IF r.seq = seq_tx THEN "IntegrityError" ELSE "ok"]
        /\ UNCHANGED <<schema, users, cats, inflight>>

Call_update_transaction(user_id, transaction_id, movement, amount, category, memo) ==
    /\ schema
    /\ txs' = update_transaction(txs, user_id, transaction_id, movement, amount, category, memo)
    /\ last' = [op |-> "update_transaction", user |-> user_id,
                res |-> IF fetch_transaction_by_id(txs, user_id, transaction_id) = {}
                        THEN "no_row"
                        ELSE IF txs' = txs /\ ~(Movement_CHECK(movement) /\ Amount_CHECK(amount))
                             THEN "IntegrityError" ELSE "ok"]
    /\ UNCHANGED <<schema, users, seq_tx, cats, inflight>>

Call_delete_transaction(user_id, transaction_id) ==
    /\ schema
    /\ txs' = delete_transaction(txs, user_id, transaction_id)
    /\ last' = [op |-> "delete_transaction", user |-> user_id,
                res |-> IF txs' = txs THEN "no_row" ELSE "ok"]
    /\ UNCHANGED <<schema, users, seq_tx, cats, inflight>>

Call_add_category(user_id, category_id, label) ==
    /\ schema
    /\ room_for_category(cats)
    /\ cats' = add_category(cats, user_id, category_id, label)
    /\ last' = [op |-> "add_category", user |-> user_id, res |-> "ok"]
    /\ UNCHANGED <<schema, users, txs, seq_tx, inflight>>

Call_update_category(user_id, category_id, new_label) ==
    /\ schema
    /\ cats' = update_category(cats, user_id, category_id, new_label)
    /\ last' = [op |-> "update_category", user |-> user_id,
                res |-> IF owns(cats, user_id, category_id) THEN "ok" ELSE "no_row"]
    /\ UNCHANGED <<schema, users, txs, seq_tx, inflight>>

Call_delete_category(user_id, category_id) ==
    /\ schema
    /\ txs' = delete_category_txs(txs, user_id, category_id)
    /\ cats' = delete_category_cats(cats, user_id, category_id)
    /\ last' = [op |-> "delete_category", user |-> user_id,
                res |-> IF owns(cats, user_id, category_id) THEN "ok" ELSE "no_row"]
    /\ UNCHANGED <<schema, users, seq_tx, inflight>>

Call_reset_all_data(user_id) ==
    /\ schema
    /\ txs' = reset_all_data_txs(txs, user_id)
    /\ cats' = reset_all_data_cats(cats, user_id)
    /\ last' = [op |-> "reset_all_data", user |-> user_id, res |-> "ok"]
    /\ UNCHANGED <<schema, users, seq_tx, inflight>>

(* the request handlers: POST requests of a logged-in user *)

\* POST /transaction
transaction(user_id, now, amount_raw, movement, category_in, memo_raw) ==
    /\ schema /\ logged_in(user_id)
    /\ \E balance \in {fetch_balance(txs, user_id)},
          category \in {category_of(movement, category_in)} :
       \E error_message \in {validate(amount_raw, movement, category,
                                      category_ids(cats, user_id), balance)} :
          /\ IF error_message = "ok"
             THEN \E r \in {insert_transaction(
                                txs, seq_tx, user_id, now, movement, int(amount_raw).value,
                                IF movement = "decrease" THEN category ELSE NULL,
                                memo_of(memo_raw))} :
                     /\ seq_tx < MaxTx
                     /\ txs' = r.T
                     /\ seq_tx' = r.seq
             ELSE UNCHANGED <<txs, seq_tx>>
          /\ last' = [op |-> "transaction", user |-> user_id, res |-> error_message]
    /\ UNCHANGED <<schema, users, cats, inflight>>

(* POST /transaction served concurrently with other requests: the handler
   reads the balance (line 136) in one statement of the database and
   validates and inserts (lines 145-185) later, in another *)

\* transaction, lines 135-136: balance = fetch_balance(user_id)
transaction_read_balance(q, user_id) ==
    /\ schema /\ logged_in(user_id)
    /\ inflight[q].pc = "idle"
    /\ inflight' = [inflight EXCEPT ![q] = [not_arrived EXCEPT
                        !.pc = "read", !.user = user_id,
                        !.balance = fetch_balance(txs, user_id)]]
    /\ last' = [op |-> "transaction_read_balance", user |-> user_id, res |-> "ok"]
    /\ UNCHANGED <<schema, users, txs, seq_tx, cats>>

balance_at_check_fresh(q) == fetch_balance(txs, inflight[q].user)

\* the balance of the comparison of line 174: the local read at line 136
balance_at_check(q) == inflight[q].balance

\* transaction, lines 145-185: the form is validated against the balance
\* read earlier, and inserted when no error was found
transaction_post(q, now, amount_raw, movement, category_in, memo_raw) ==
    /\ inflight[q].pc = "read"
    /\ \E user_id \in {inflight[q].user}, balance \in {balance_at_check(q)},
          category \in {category_of(movement, category_in)} :
       \E error_message \in {validate(amount_raw, movement, category,
                                      category_ids(cats, user_id), balance)} :
          /\ IF error_message = "ok"
             THEN \E r \in {insert_transaction(
                                txs, seq_tx, user_id, now, movement, int(amount_raw).value,
                                IF movement = "decrease" THEN category ELSE NULL,
                                memo_of(memo_raw))} :
                     /\ txs' = r.T
                     /\ seq_tx' = r.seq
             ELSE UNCHANGED <<txs, seq_tx>>
          /\ inflight' = [inflight EXCEPT ![q] = [@ EXCEPT
                              !.pc = "done", !.movement = movement,
                              !.amount = IF int(amount_raw).ok THEN int(amount_raw).value ELSE 0,
                              !.res = error_message]]
          /\ last' = [op |-> "transaction_post", user |-> user_id, res |-> error_message]
    /\ UNCHANGED <<schema, users, cats>>

\* POST /transaction/<id>/edit
edit_transaction(user_id, transaction_id, amount_raw, movement, category_in, memo_raw) ==
    /\ schema /\ logged_in(user_id)
    /\ \E found \in {fetch_transaction_by_id(txs, user_id, transaction_id)} :
          IF found = {}
          THEN /\ txs' = txs
               /\ last' = [op |-> "edit_transaction", user |-> user_id, res |-> "NotFound"]
          ELSE \E this \in found, balance \in {fetch_balance(txs, user_id)},
                  category \in {category_of(movement, category_in)} :
               \E error_message \in {validate(amount_raw, movement, category,
                                              category_ids(cats, user_id),
                                              balance_without_this(balance, this))} :
                  /\ txs' = IF error_message = "ok"
                            THEN update_transaction(
                                     txs, user_id, transaction_id, movement,
                                     int(amount_raw).value,
                                     IF movement = "decrease" THEN category ELSE NULL,
                                     memo_of(memo_raw))
                            ELSE txs
                  /\ last' = [op |-> "edit_transaction", user |-> user_id,
                              res |-> error_message]
    /\ UNCHANGED <<schema, users, seq_tx, cats, inflight>>

\* POST /transaction/<id>/delete
delete_transaction_route(user_id, transaction_id) ==
    LET found == fetch_transaction_by_id(txs, user_id, transaction_id)
    IN  /\ schema /\ logged_in(user_id)
        /\ txs' = IF found # {} THEN delete_transaction(txs, user_id, transaction_id) ELSE txs
        /\ last' = [op |-> "delete_transaction_route", user |-> user_id,
                    res |-> IF found = {} THEN "NotFound" ELSE "ok"]
        /\ UNCHANGED <<schema, users, seq_tx, cats, inflight>>

\* POST /settings, action = reset_all
settings_reset_all(user_id) ==
    /\ schema /\ logged_in(user_id)
    /\ txs' = reset_all_data_txs(txs, user_id)
    /\ cats' = reset_all_data_cats(cats, user_id)
    /\ last' = [op |-> "settings_reset_all", user |-> user_id, res |-> "ok"]
    /\ UNCHANGED <<schema, users, seq_tx, inflight>>

\* POST /settings, action = add_category
settings_add_category(user_id, category_id_raw, label_raw) ==
    LET category_id == strip_text(category_id_raw)
        label == strip_text(label_raw)
        called == category_id # "" /\ label # ""
    IN  /\ schema /\ logged_in(user_id)
        /\ called => room_for_category(cats)
        /\ cats' = IF called THEN add_category(cats, user_id, category_id, label) ELSE cats
        /\ last' = [op |-> "settings_add_category", user |-> user_id,
                    res |-> IF called THEN "ok" ELSE "ignored"]
        /\ UNCHANGED <<schema, users, txs, seq_tx, inflight>>

\* POST /settings, action = update_category
settings_update_category(user_id, category_id, label_raw) ==
    LET new_label == strip_text(label_raw)
        called == category_id # NULL /\ category_id # "" /\ new_label # ""
    IN  /\ schema /\ logged_in(user_id)
        /\ cats' = IF called THEN update_category(cats, user_id, category_id, new_label)
                   ELSE cats
        /\ last' = [op |-> "settings_update_category", user |-> user_id,
                    res |-> IF ~called THEN "ignored"
                            ELSE IF owns(cats, user_id, category_id) THEN "ok" ELSE "no_row"]
        /\ UNCHANGED <<schema, users, txs, seq_tx, inflight>>

\* POST /settings, action = delete_category
settings_delete_category(user_id, category_id) ==
    LET called == category_id # NULL /\ category_id # ""
    IN  /\ schema /\ logged_in(user_id)
        /\ txs' = IF called THEN delete_category_txs(txs, user_id, category_id) ELSE txs
        /\ cats' = IF called THEN delete_category_cats(cats, user_id, category_id) ELSE cats
        /\ last' = [op |-> "settings_delete_category", user |-> user_id,
                    res |-> IF ~called THEN "ignored"
                            ELSE IF owns(cats, user_id, category_id) THEN "ok" ELSE "no_row"]
        /\ UNCHANGED <<schema, users, seq_tx, inflight>>

----------------------------------------------------------------------------
(* Inputs *)

\* the clock: the last second of 2024 and its neighbours
Times ==
    {<<2024, 11, 30, 23, 59, 59>>, <<2024, 12, 1, 0, 0, 0>>,
     <<2024, 12, 31, 23, 59, 59>>, <<2025, 1, 1, 0, 0, 0>>}

Noon == <<2024, 12, 15, 12, 0, 0>>

Months == {<<2024, 11>>, <<2024, 12>>, <<2025, 1>>}

\* amounts: 0 is refused by CHECK(amount > 0)
Amounts == 0..MaxAmount

TxIds == 1..MaxTx

RowMovements == {"increase", "decrease"}

----------------------------------------------------------------------------
(* The ledger: the store's transaction functions, called with any arguments *)

NextLedger ==
    \/ init_db
    \/ \E u \in UserIds, m \in Movements, a \in Amounts :
            Call_insert_transaction(u, Noon, m, a, NULL, NULL)
    \/ \E u \in UserIds, id \in TxIds, m \in Movements, a \in Amounts :
            Call_update_transaction(u, id, m, a, NULL, NULL)
    \/ \E u \in UserIds, id \in TxIds : Call_delete_transaction(u, id)
    \/ \E u \in UserIds : Call_reset_all_data(u)

SpecLedger == Init /\ [][NextLedger]_vars

----------------------------------------------------------------------------
(* The store: every function of db.py that writes, called with any arguments *)

StoreCategories == {"food", "travel"}

StoreCategoryIds == {"food", "travel"}

Next ==
    \/ init_db
    \/ \E u \in UserIds, m \in RowMovements, c \in StoreCategories :
            Call_insert_transaction(u, Noon, m, 1, c, NULL)
    \/ \E u \in UserIds, id \in TxIds, m \in RowMovements, c \in StoreCategories :
            Call_update_transaction(u, id, m, 1, c, NULL)
    \/ \E u \in UserIds, id \in TxIds : Call_delete_transaction(u, id)
    \/ \E u \in UserIds, c \in StoreCategoryIds : Call_add_category(u, c, "travel-label")
    \/ \E u \in UserIds, c \in StoreCategoryIds : Call_update_category(u, c, "new-label")
    \/ \E u \in UserIds, c \in StoreCategoryIds : Call_delete_category(u, c)
    \/ \E u \in UserIds : Call_reset_all_data(u)

Spec == Init /\ [][Next]_vars

----------------------------------------------------------------------------
(* The application: the transaction requests of logged-in users *)

\* the forms submitted: the well-formed ones, and one of each malformed kind
Forms ==
    {[amount |-> str(n), movement |-> m, category |-> c] :
        n \in 1..MaxAmount, m \in RowMovements, c \in {"food", "travel"}}
    \cup {[amount |-> <<"a">>, movement |-> "decrease", category |-> "food"],
          [amount |-> <<" ", "1", " ">>, movement |-> "increase", category |-> NULL],
          [amount |-> str(0), movement |-> "decrease", category |-> "food"],
          [amount |-> str(1), movement |-> "transfer", category |-> "food"],
          [amount |-> str(1), movement |-> "decrease", category |-> NULL]}

NextApp ==
    \/ init_db
    \/ register("akiko")
    \/ \E u \in UserIds, f \in Forms :
            transaction(u, Noon, f.amount, f.movement, f.category, "lunch")
    \/ \E u \in UserIds, id \in TxIds, f \in Forms :
            edit_transaction(u, id, f.amount, f.movement, f.category, " ")
    \/ \E u \in UserIds, id \in TxIds : delete_transaction_route(u, id)
    \/ \E u \in UserIds : settings_add_category(u, "travel", "travel-label")
    \/ \E u \in UserIds : settings_delete_category(u, "travel")

SpecApp == Init /\ [][NextApp]_vars

----------------------------------------------------------------------------
(* The settings: the category requests of logged-in users *)

FormCategoryIds == {"travel", " travel ", "food", ""}

NextSettings ==
    \/ init_db
    \/ \E n \in Usernames : register(n)
    \/ \E u \in UserIds, m \in RowMovements, c \in {"food", "travel"} :
            transaction(u, Noon, str(1), m, c, "")
    \/ \E u \in UserIds : settings_reset_all(u)
    \/ \E u \in UserIds, c \in FormCategoryIds, l \in {"travel-label", " "} :
            settings_add_category(u, c, l)
    \/ \E u \in UserIds, c \in {"travel", "food", NULL}, l \in {"new-label", " "} :
            settings_update_category(u, c, l)
    \/ \E u \in UserIds, c \in {"travel", "food", NULL} : settings_delete_category(u, c)

SpecSettings == Init /\ [][NextSettings]_vars

----------------------------------------------------------------------------
(* The history: transactions around the turn of the year *)

HistoryCategories == {NULL, "other", "bogus"}

NextHistory ==
    \/ init_db
    \/ \E u \in UserIds, now \in Times, m \in RowMovements, c \in HistoryCategories :
            Call_insert_transaction(u, now, m, 1, c, NULL)
    \/ \E u \in UserIds, id \in TxIds : Call_delete_transaction(u, id)
    \/ \E u \in UserIds : Call_add_category(u, "bogus", "travel-label")
    \/ \E u \in UserIds : Call_delete_category(u, "bogus")

SpecHistory == Init /\ [][NextHistory]_vars

----------------------------------------------------------------------------
(* The handlers: every request that writes, one request at a time *)

NextHandlers ==
    \/ init_db
    \/ \E n \in Usernames : register(n)
    \/ \E u \in UserIds, f \in Forms :
            transaction(u, Noon, f.amount, f.movement, f.category, "")
    \/ \E u \in UserIds, id \in TxIds, f \in Forms :
            edit_transaction(u, id, f.amount, f.movement, f.category, "")
    \/ \E u \in UserIds, id \in TxIds : delete_transaction_route(u, id)
    \/ \E u \in UserIds : settings_reset_all(u)
    \/ \E u \in UserIds : settings_add_category(u, " travel ", "travel-label")
    \/ \E u \in UserIds, c \in {"travel", "food"} :
            settings_update_category(u, c, "new-label")
    \/ \E u \in UserIds, c \in {"travel", "food"} : settings_delete_category(u, c)

SpecHandlers == Init /\ [][NextHandlers]_vars

----------------------------------------------------------------------------
(* Concurrency: POST /transaction requests whose statements interleave *)

NextRace ==
    \/ init_db
    \/ \E n \in Usernames : register(n)
    \/ \E q \in Requests, u \in UserIds : transaction_read_balance(q, u)
    \/ \E q \in Requests, m \in RowMovements, a \in 1..MaxAmount :
            transaction_post(q, Noon, str(a), m, "food", "")

SpecRace == Init /\ [][NextRace]_vars

----------------------------------------------------------------------------
(* C1 *)

\* the sum of the amounts of the user's stored rows of one movement
amounts_of(user_id, movement) ==
    SumSet({[key |-> r.id, n |-> r.amount] :
              r \in {x \in txs : x.user_id = user_id /\ x.movement = movement}})

\* C1: after any inserts, updates and deletes by any users, fetch_balance(u)
\* is the sum of u's stored increases minus the sum of u's stored decreases,
\* counting u's rows only, and 0 when u has no transaction
C1_BalanceIsIncreasesMinusDecreases ==
    \A u \in UserIds :
        /\ fetch_balance(txs, u) = amounts_of(u, "increase") - amounts_of(u, "decrease")
        /\ (\A r \in txs : r.user_id # u) => fetch_balance(txs, u) = 0

\* an update has left user 1 with an increase and a decrease, and user 2
\* has no transaction; or both users hold one and their balances differ
C1_Witness ==
    /\ last.op \in {"update_transaction", "delete_transaction"}
    /\ \/ /\ \E r \in txs : r.user_id = 1 /\ r.movement = "increase" /\ r.amount = 2
          /\ \E r \in txs : r.user_id = 1 /\ r.movement = "decrease" /\ r.amount = 1
          /\ fetch_balance(txs, 1) = 1
          /\ fetch_balance(txs, 2) = 0
       \/ /\ \E r \in txs : r.user_id = 1 /\ r.movement = "increase"
          /\ \E r \in txs : r.user_id = 2 /\ r.movement = "decrease"
          /\ fetch_balance(txs, 1) > 0
          /\ fetch_balance(txs, 2) < 0

----------------------------------------------------------------------------
(* C2 *)

\* the step is the request POST /transaction of user u with form f
is_transaction(u, f) ==
    /\ last'.op = "transaction" /\ last'.user = u
    /\ transaction(u, Noon, f.amount, f.movement, f.category, "lunch")

\* C2: in the create-transaction handler a submitted decrease whose amount is
\* greater than the user's balance is rejected before any write:
\* insert_transaction is not called, and the transactions and categories
\* tables are the same after the request as before it
C2_OverdraftRejectedBeforeWrite ==
    [][\A u \in UserIds, f \in Forms :
          ( /\ last'.op = "transaction"
            /\ f.movement = "decrease"
            /\ int(f.amount).ok
            /\ int(f.amount).value > fetch_balance(txs, u)
            /\ is_transaction(u, f) )
          => /\ last'.res # "ok"
             /\ txs' = txs /\ seq_tx' = seq_tx /\ cats' = cats]_vars

\* a decrease in a category of the user's, larger than a balance of 1 or
\* more, has been rejected
C2_Witness ==
    /\ last.op = "transaction"
    /\ last.res = "InsufficientBalance"
    /\ fetch_balance(txs, last.user) >= 1

----------------------------------------------------------------------------
(* C3 *)

\* the step is the request POST /transaction/<id>/edit of user u with form f
is_edit_transaction(u, id, f) ==
    /\ last'.op = "edit_transaction" /\ last'.user = u
    /\ edit_transaction(u, id, f.amount, f.movement, f.category, " ")

\* the user's balance computed without the transaction under edit
balance_excluding(u, id) == fetch_balance({r \in txs : r.id # id}, u)

\* the amount of form f is an integer above the balance without transaction id
exceeds(u, id, f) == int(f.amount).ok /\ int(f.amount).value > balance_excluding(u, id)

\* C3, as claimed: in the edit-transaction handler a submitted decrease (of a
\* positive amount) is rejected exactly when its amount exceeds the user's
\* balance computed with the transaction under edit excluded
C3_RejectedExactlyWhenExceeds ==
    [][\A u \in UserIds, id \in TxIds, f \in Forms :
          ( /\ last'.op = "edit_transaction"
            /\ f.movement = "decrease"
            /\ int(f.amount).ok /\ int(f.amount).value > 0
            /\ fetch_transaction_by_id(txs, u, id) # {}
            /\ is_edit_transaction(u, id, f) )
          => (last'.res # "ok" <=> exceeds(u, id, f))]_vars

\* C3, amended: in the edit-transaction handler a submitted decrease whose
\* amount exceeds the user's balance computed with the transaction under edit
\* excluded is rejected, and one of a positive amount in a category of the
\* user's effective set is rejected only then; on rejection
\* update_transaction is not called and the stored transaction keeps its
\* movement, amount, category and memo
C3_RejectedWhenExceeds ==
    [][\A u \in UserIds, id \in TxIds, f \in Forms :
          ( /\ last'.op = "edit_transaction"
            /\ f.movement = "decrease"
            /\ fetch_transaction_by_id(txs, u, id) # {}
            /\ is_edit_transaction(u, id, f) )
          => /\ exceeds(u, id, f) => last'.res # "ok"
             /\ ( /\ int(f.amount).ok /\ int(f.amount).value > 0
                  /\ f.category \in category_ids(cats, u)
                  /\ ~exceeds(u, id, f) ) => last'.res = "ok"
             /\ last'.res # "ok" => txs' = txs]_vars

\* an edit to a decrease has been rejected for the balance, and the user's
\* decrease of 1 with its memo is still stored
C3_Witness ==
    /\ last.op = "edit_transaction"
    /\ last.res = "InsufficientBalance"
    /\ \E r \in txs : /\ r.user_id = last.user /\ r.movement = "decrease"
                      /\ r.amount = 1 /\ r.memo = "lunch"

----------------------------------------------------------------------------
(* C4 *)

owned_by(C, user_id) == BagFilter(C, LAMBDA r : r.user_id = user_id)

rows_of(T, user_id) == {r \in T : r.user_id = user_id}

\* C4: delete_category(u, c) for a category c owned by u sets the category
\* of every transaction of u that referenced c to 'other', removes c's owned
\* row, which get_all_categories(u) no longer lists, and leaves every other
\* user's owned categories and transactions as they were
C4_DeleteCategoryReassignsOwnOnly ==
    [][\A u \in UserIds, c \in StoreCategoryIds :
          ( /\ last'.op = "delete_category" /\ last'.user = u
            /\ owns(cats, u, c)
            /\ Call_delete_category(u, c) )
          => /\ \A r \in rows_of(txs, u) :
                    r.category = c => [r EXCEPT !.category = "other"] \in txs'
             /\ \A r \in rows_of(txs', u) : r.category = c => c = "other"
             /\ LET listed == get_all_categories(cats', u)
                IN  \A i \in 1..Len(listed) :
                        ~(listed[i].id = c /\ listed[i].user_id = u)
             /\ \A v \in UserIds \ {u} :
                    /\ owned_by(cats', v) = owned_by(cats, v)
                    /\ rows_of(txs', v) = rows_of(txs, v)]_vars

\* user 1 has deleted a category of theirs: a transaction of user 1 is in
\* 'other' now, user 2 still owns 'travel' and a transaction in it
C4_Witness ==
    /\ last = [op |-> "delete_category", user |-> 1, res |-> "ok"]
    /\ \E r \in txs : r.user_id = 1 /\ r.category = "other"
    /\ \E r \in txs : r.user_id = 2 /\ r.category = "travel"
    /\ owns(cats, 2, "travel")
    /\ ~owns(cats, 1, "travel")

----------------------------------------------------------------------------
(* C5 *)

shared(C) == BagFilter(C, LAMBDA r : r.user_id = NO_USER)

\* C5: update_category, delete_category, add_category and reset_all_data,
\* by any user and with any category id, leave the shared category rows as
\* they were: the same rows, each with its id, label and display order
C5_SharedCategoriesImmutable ==
    [][last'.op \in {"update_category", "delete_category", "add_category",
                     "reset_all_data"}
          => shared(cats') = shared(cats)]_vars

\* a user has relabelled a 'food' of their own; the shared 'food' keeps its label
C5_Witness ==
    /\ last.op = "update_category" /\ last.res = "ok"
    /\ \E r \in DOMAIN cats : r.id = "food" /\ r.user_id = last.user /\ r.label = "new-label"
    /\ \E r \in DOMAIN cats : r.id = "food" /\ r.user_id = NO_USER /\ r.label = "tabemono"

----------------------------------------------------------------------------
(* C6 *)

\* C6: the settings action add_category with an id that the user's effective
\* category set already holds adds no row: the categories table is as it
\* was, and get_all_categories(u) returns as many categories as before
C6_AddExistingCategoryIsNoOp ==
    [][\A u \in UserIds, c \in FormCategoryIds, l \in {"travel-label", " "} :
          ( /\ last'.op = "settings_add_category" /\ last'.user = u
            /\ strip_text(c) \in category_ids(cats, u)
            /\ settings_add_category(u, c, l) )
          => /\ cats' = cats
             /\ Len(get_all_categories(cats', u)) = Len(get_all_categories(cats, u))]_vars

----------------------------------------------------------------------------
(* C7 *)

\* u's decreases of the month
decreases_of(u, month) == {r \in rows_of_month(txs, u, month) : r.movement = "decrease"}

\* the total C7 gives to a category of the effective set: the amounts of
\* u's decreases of the month in that category and, for 'other', of those
\* whose category is null or outside the effective set
bucket_total(u, month, k) ==
    SumSet({[key |-> r.id, n |-> r.amount] :
              r \in {x \in decreases_of(u, month) :
                       \/ x.category = k
                       \/ /\ k = "other"
                          /\ \/ x.category = NULL
                             \/ x.category \notin category_ids(cats, u)}})

\* C7: fetch_category_totals(u, month) has exactly the ids of u's effective
\* category set as keys, each with the sum of u's decreases of the month in
\* that category, the decreases with a null category or an id outside the
\* set being added to 'other'
C7_TotalsKeyedByEffectiveSet ==
    \A u \in UserIds, month \in Months :
        \A totals \in fetch_category_totals(txs, cats, u, month) :
            /\ DOMAIN totals = category_ids(cats, u)
            /\ \A k \in DOMAIN totals : totals[k] = bucket_total(u, month, k)

----------------------------------------------------------------------------
(* C8 *)

\* the default shared categories, written out
C8_Defaults ==
    SetToBag({[id |-> "food", user_id |-> NO_USER, label |-> "tabemono", display_order |-> 0],
              [id |-> "fun", user_id |-> NO_USER, label |-> "asobi", display_order |-> 1],
              [id |-> "stationery", user_id |-> NO_USER, label |-> "bungu", display_order |-> 2],
              [id |-> "oshikatsu", user_id |-> NO_USER, label |-> "oshikatsu", display_order |-> 3],
              [id |-> "other", user_id |-> NO_USER, label |-> "sonota", display_order |-> 4]})

\* C8: once init_db has run, whatever requests and further init_db calls
\* follow, the shared category rows are one copy each of food, fun,
\* stationery, oshikatsu, other with display orders 0..4; and a call of
\* init_db leaves every user, transaction and owned category as it was
C8_InitDbIdempotent ==
    [][/\ schema' => shared(cats') = C8_Defaults
       /\ last'.op = "init_db"
             => /\ users' = users
                /\ txs' = txs
                /\ \A u \in UserIds : owned_by(cats', u) = owned_by(cats, u)]_vars

\* init_db has been called on a store that holds two users, a transaction,
\* an owned category and the defaults
C8_Witness ==
    /\ last.op = "init_db"
    /\ Cardinality(users) = 2
    /\ txs # {}
    /\ \E u \in UserIds : owns(cats, u, "travel")
    /\ shared(cats) = C8_Defaults

----------------------------------------------------------------------------
(* C9 *)

owner_of(T, id) == {r.user_id : r \in {x \in T : x.id = id}}

\* C9: no call on behalf of user a changes a transaction, an owned category
\* or the balance of another user b; update_transaction and
\* delete_transaction with an id owned by b change nothing, and
\* fetch_transaction_by_id(a, id) finds nothing for an id owned by b
C9_UserIsolation ==
    [][\A a \in UserIds : \A b \in UserIds \ {a} :
          /\ last'.user = a
                => /\ rows_of(txs', b) = rows_of(txs, b)
                   /\ owned_by(cats', b) = owned_by(cats, b)
                   /\ fetch_balance(txs', b) = fetch_balance(txs, b)
          /\ \A id \in TxIds :
                b \in owner_of(txs, id)
                => /\ fetch_transaction_by_id(txs, a, id) = {}
                   /\ \A m \in RowMovements, c \in StoreCategories :
                         Call_update_transaction(a, id, m, 1, c, NULL) => txs' = txs
                   /\ Call_delete_transaction(a, id) => txs' = txs]_vars

\* a user has called update_transaction when every id was another user's:
\* no row was matched
C9_Witness ==
    /\ last.op = "update_transaction" /\ last.res = "no_row"
    /\ \A id \in TxIds : \E r \in txs : r.id = id /\ r.user_id # last.user /\ r.memo = NULL

----------------------------------------------------------------------------
(* C10 *)

\* the months since year 0 of a month or of an instant
month_index(t) == t[1] * 12 + (t[2] - 1)

\* the seconds of an instant since the start of its month
second_of_month(t) == (((t[3] - 1) * 24 + t[4]) * 60 + t[5]) * 60 + t[6]

\* instant a is not later than instant b
not_later(a, b) ==
    \/ month_index(a) < month_index(b)
    \/ month_index(a) = month_index(b) /\ second_of_month(a) <= second_of_month(b)

\* the month after: January of the next year after December
following_month(month) ==
    IF month[2] = 12 THEN <<month[1] + 1, 1>> ELSE <<month[1], month[2] + 1>>

\* the instant is in the half-open interval from the first instant of the
\* month to the first instant of the following month
in_month(t, month) ==
    /\ not_later(<<month[1], month[2], 1, 0, 0, 0>>, t)
    /\ ~not_later(<<following_month(month)[1], following_month(month)[2], 1, 0, 0, 0>>, t)

\* C10: fetch_transactions_by_month(u, month) returns u's transactions whose
\* occurred_at is in the half-open interval of the month, each once and
\* no other, in ascending order of occurred_at
C10_MonthIsHalfOpenInterval ==
    \A u \in UserIds, month \in Months :
        /\ fetch_transactions_by_month(txs, u, month) # {}
        /\ \A transactions \in fetch_transactions_by_month(txs, u, month) :
              LET n == Len(transactions)
                  expected == {r \in rows_of(txs, u) : in_month(r.occurred_at, month)}
              IN  /\ {transactions[i] : i \in 1..n} = {Transaction(r) : r \in expected}
                  /\ n = Cardinality(expected)
                  /\ \A i \in 1..n, j \in 1..n :
                        i < j => not_later(transactions[i].occurred_at,
                                           transactions[j].occurred_at)

\* a user has a transaction at 2024-12-31T23:59:59 and one at
\* 2025-01-01T00:00:00: the list of 2024-12 holds the first and not the second
C10_Witness ==
    \E u \in UserIds :
        /\ \E r \in rows_of(txs, u) : r.occurred_at = <<2024, 12, 31, 23, 59, 59>>
        /\ \E r \in rows_of(txs, u) : r.occurred_at = <<2025, 1, 1, 0, 0, 0>>
        /\ \A transactions \in fetch_transactions_by_month(txs, u, <<2024, 12>>) :
              /\ Len(transactions) = 1
              /\ transactions[1].occurred_at = <<2024, 12, 31, 23, 59, 59>>

----------------------------------------------------------------------------
(* C11 *)

\* the requests that have inserted a decrease
inserted_decrease(q) ==
    /\ inflight[q].pc = "done"
    /\ inflight[q].res = "ok"
    /\ inflight[q].movement = "decrease"

\* C11: the overdraft check of a create-transaction request compares the
\* amount with the balance the request read when it started, not with the
\* balance at the time of its insert: every decrease inserted did not
\* exceed the balance its request had read, whatever other requests
\* inserted in between (so two requests that read the same balance both
\* pass and together overdraw: the state of C11_Witness)
C11_CheckedAgainstBalanceRead ==
    \A q \in Requests :
        inserted_decrease(q) => inflight[q].amount <= inflight[q].balance

\* two requests of one user have read the same balance, each has passed
\* the check and inserted its decrease, and the user's balance is negative
C11_Witness ==
    \E q1 \in Requests : \E q2 \in Requests \ {q1} :
        /\ inserted_decrease(q1) /\ inserted_decrease(q2)
        /\ inflight[q1].user = inflight[q2].user
        /\ inflight[q1].balance = inflight[q2].balance
        /\ inflight[q1].amount <= inflight[q1].balance
        /\ inflight[q2].amount <= inflight[q2].balance
        /\ fetch_balance(txs, inflight[q1].user) < 0

----------------------------------------------------------------------------
(* C12 *)

\* C12: with requests handled one at a time from an empty ledger, no
\* sequence of create-transaction, edit-transaction and delete-transaction
\* requests leaves a user with a negative balance
C12_BalanceNeverNegative ==
    \A u \in UserIds : fetch_balance(txs, u) >= 0

----------------------------------------------------------------------------
(* C13 *)

\* C13: delete_category(u, c) with an id c of which u owns no category row
\* (a shared id, another user's id, an id of no row) changes nothing: no
\* category row is removed and no transaction has its category changed
C13_DeleteUnownedCategoryIsNoOp ==
    [][\A u \in UserIds, c \in StoreCategoryIds :
          ( /\ last'.op = "delete_category" /\ last'.user = u
            /\ ~owns(cats, u, c)
            /\ Call_delete_category(u, c) )
          => /\ cats' = cats
             /\ txs' = txs]_vars

----------------------------------------------------------------------------
(* C14 *)

\* C14: with requests handled one at a time, every stored transaction has
\* an amount above 0, a null category when it is an increase and, when it
\* is a decrease, a category that is the id of a category of its owner's
\* effective set (the shared categories and the owner's own)
C14_StoredTransactionsWellFormed ==
    \A r \in txs :
        /\ r.amount > 0
        /\ r.movement = "increase" => r.category = NULL
        /\ r.movement = "decrease"
              => /\ r.category # NULL
                 /\ r.category \in category_ids(cats, r.user_id)

\* a user has deleted the category of a decrease of theirs, which is in
\* 'other' now; an increase is stored with a null category
C14_Witness ==
    /\ last.op = "settings_delete_category" /\ last.res = "ok"
    /\ ~owns(cats, last.user, "travel")
    /\ \E r \in rows_of(txs, last.user) : r.movement = "decrease" /\ r.category = "other"
    /\ \E r \in txs : r.movement = "increase" /\ r.category = NULL

====
